---- MODULE Spec2Model ----
(***************************************************************************)
(* analyzeSalesData (src/src/main.js) as a state machine: one call of the  *)
(* function, from its arguments to the returned report or the thrown       *)
(* error, together with the two default strategies                         *)
(* calculateSimpleRevenue and calculateBonusByProfit.                      *)
(*                                                                         *)
(* Numbers.  A JavaScript number is modelled exactly (IEEE-754 rounding    *)
(* error is abstracted away) as an integer count of units of 10^-7, so     *)
(* that a price in thousandths, a percentage discount and a percentage     *)
(* bonus rate all stay integral.  A value that may be NaN is a record:     *)
(* [num |-> v] or [nan |-> TRUE]; a value that may be a string is          *)
(* [str |-> s].                                                            *)
(*                                                                         *)
(* Objects.  sellerIndex, productIndex and products_sold are ordinary      *)
(* objects created by {}: a property read finds own properties first and   *)
(* the properties of Object.prototype after them.                          *)
(***************************************************************************)
EXTENDS Integers, Sequences, FiniteSets, TLC

VARIABLES
    data,          \* first argument of analyzeSalesData
    options,       \* second argument of analyzeSalesData
    pc,            \* position in analyzeSalesData
    error,         \* "none", or the message of the thrown error
    heap,          \* the SellerStat objects, by reference (creation index)
    sellerStats,   \* the array sellerStats: a sequence of references
    sellerIndex,   \* own properties of sellerIndex: id -> reference
    productIndex,  \* own properties of productIndex: sku -> product
    builtins,      \* <<key, property>>: properties set on the built-in an inherited key names
    cursor,        \* index of the next element of the running forEach
    revenueCalls,  \* calls of options.calculateRevenue made so far
    bonusCalls,    \* calls of options.calculateBonus made so far
    report,        \* the returned array (empty until the function returns)
    fn             \* a direct call of one strategy: arguments and result

vars == <<data, options, pc, error, heap, sellerStats, sellerIndex,
          productIndex, builtins, cursor, revenueCalls, bonusCalls, report, fn>>

-----------------------------------------------------------------------------
(* JavaScript values *)

\* One hundredth of a currency unit, in units of 10^-7: the grain of toFixed(2).
Cent == 100000

\* m thousandths of a currency unit.
Milli(m) == m * (Cent \div 10)

Num(v) == [num |-> v]
NaN == [nan |-> TRUE]
Str(s) == [str |-> s]
IsNum(x) == "num" \in DOMAIN x
IsNaN(x) == "nan" \in DOMAIN x
IsStr(x) == "str" \in DOMAIN x

\* a + b and a - b on numbers: NaN is absorbing.
Add(a, b) == IF IsNum(a) /\ IsNum(b) THEN Num(a.num + b.num) ELSE NaN
Sub(a, b) == IF IsNum(a) /\ IsNum(b) THEN Num(a.num - b.num) ELSE NaN

\* x * (pct / 100) for the rates 0.15, 0.10 and 0.05; every profit the model
\* builds is a multiple of 100 units, so the division is exact.
Percent(x, pct) == IF IsNum(x) THEN Num((x.num \div 100) * pct) ELSE NaN

\* typeof v, for the tagged values data and options are drawn from.
TypeOf(v) == IF v.type = "null" THEN "object" ELSE v.type

\* !v for data: null and undefined are falsy, an object is truthy.
Falsy(v) == v.type \in {"null", "undefined"}

\* Array.isArray(obj.key): a missing property stands for every non-array value.
IsArrayProp(obj, key) == key \in DOMAIN obj

\* typeof obj.key === 'function'
IsFunctionProp(obj, key) == key \in DOMAIN obj /\ obj[key].type = "function"

\* The properties every object created by {} inherits from Object.prototype;
\* each of them is a function or an object, hence truthy.
ObjectPrototypeKeys ==
    {"constructor", "toString", "toLocaleString", "valueOf", "hasOwnProperty",
     "isPrototypeOf", "propertyIsEnumerable", "__proto__", "__defineGetter__",
     "__defineSetter__", "__lookupGetter__", "__lookupSetter__"}

\* obj[key] for an object created by {} whose own properties are the function own.
Get(own, key) ==
    IF key \in DOMAIN own THEN [kind |-> "own", value |-> own[key]]
    ELSE IF key \in ObjectPrototypeKeys THEN [kind |-> "inherited"]
    ELSE [kind |-> "undefined"]

\* ToFixed2 cutting the digits after the second instead of rounding them.
ToFixed2Truncating(x) ==
    IF x >= 0 THEN (x \div Cent) * Cent ELSE 0 - (((0 - x) \div Cent) * Cent)

\* x.toFixed(2) read back with unary +: the nearest multiple of a cent, a tie
\* going away from zero.
ToFixed2(x) ==
    IF x >= 0 THEN ((x + Cent \div 2) \div Cent) * Cent
    ELSE 0 - ((((0 - x) + Cent \div 2) \div Cent) * Cent)

ToFixed2Num(x) == IF IsNum(x) THEN Num(ToFixed2(x.num)) ELSE NaN

\* `${first_name || ''} ${last_name || ''}`.trim() || 'Unknown', strings being
\* sequences of characters.
Field(obj, key) == IF key \in DOMAIN obj THEN obj[key] ELSE <<>>

RECURSIVE TrimStart(_)
TrimStart(s) == IF s # <<>> /\ Head(s) = " " THEN TrimStart(Tail(s)) ELSE s

RECURSIVE TrimEnd(_)
TrimEnd(s) ==
    IF s # <<>> /\ s[Len(s)] = " " THEN TrimEnd(SubSeq(s, 1, Len(s) - 1)) ELSE s

Trim(s) == TrimEnd(TrimStart(s))

FormatName(seller) ==
    LET full == Trim(Field(seller, "first_name") \o <<" ">> \o Field(seller, "last_name"))
    IN  IF full = <<>> THEN <<"U", "n", "k", "n", "o", "w", "n">> ELSE full

-----------------------------------------------------------------------------
(* The strategies *)

\* calculateSimpleRevenue(purchase, _product):
\* sale_price * quantity * (1 - discount / 100), discount defaulting to 0.
calculateSimpleRevenue(purchase, product) ==
    LET discount == IF "discount" \in DOMAIN purchase THEN purchase.discount ELSE 0
    IN  Num((purchase.sale_price \div 100) * purchase.quantity * (100 - discount))

\* calculateBonusByProfit with the last-place test moved to the top.
calculateBonusLastPlaceFirst(index, total, seller) ==
    LET profit == seller.profit
    IN  IF index = total - 1 THEN Num(0)
        ELSE IF index = 0 THEN Percent(profit, 15)
        ELSE IF index = 1 \/ index = 2 THEN Percent(profit, 10)
        ELSE Percent(profit, 5)

\* calculateBonusByProfit(index, total, seller)
calculateBonusByProfit(index, total, seller) ==
    LET profit == seller.profit
    IN  IF index = 0 THEN Percent(profit, 15)
        ELSE IF index = 1 \/ index = 2 THEN Percent(profit, 10)
        ELSE IF index = total - 1 THEN Num(0)
        ELSE Percent(profit, 5)

\* Two strategies a caller may pass instead of the defaults: a revenue of zero
\* for every line item, and a bonus of one cent per place from the bottom.
zeroRevenue(purchase, product) == Num(0)

placeBonus(index, total, seller) == Num((total - index) * Cent)

\* options.calculateRevenue(item, product) and options.calculateBonus(...)
CallRevenue(f, item, product) ==
    IF f.name = "calculateSimpleRevenue" THEN calculateSimpleRevenue(item, product)
    ELSE zeroRevenue(item, product)

CallBonus(f, index, total, seller) ==
    IF f.name = "calculateBonusByProfit" THEN calculateBonusByProfit(index, total, seller)
    ELSE placeBonus(index, total, seller)

Function(name) == [type |-> "function", name |-> name]

-----------------------------------------------------------------------------
(* Array.prototype.sort *)

\* A comparator's result as sort reads it: NaN counts as +0.
SortOrder(v) == IF IsNum(v) THEN v.num ELSE 0

\* The sort operators take the comparator as its results on the array being
\* sorted: c[a][b] is the result of comparing s[a] with s[b].
\* Whether the results c are those of a consistent comparison function
\* (ECMA-262, Array.prototype.sort).
ConsistentComparator(c) ==
    \A x, y, z \in DOMAIN c :
        /\ (c[x][y] = 0 /\ c[y][z] = 0) => c[x][z] = 0
        /\ (c[x][y] < 0 /\ c[y][z] < 0) => c[x][z] < 0
        /\ (c[x][y] > 0 /\ c[y][z] > 0) => c[x][z] > 0
        /\ (c[x][y] < 0) <=> (c[y][x] > 0)

\* The stable sort of s: an element moves behind those that compare less and
\* behind the equal ones that preceded it.
StableSort(s, c) ==
    LET n == Len(s)
        place(k) == 1 + Cardinality({m \in 1..n :
                        \/ c[m][k] < 0
                        \/ c[m][k] = 0 /\ m < k})
    IN  [p \in 1..n |-> s[CHOOSE k \in 1..n : place(k) = p]]

Orderings(s) ==
    LET n == Len(s)
    IN  {[p \in 1..n |-> s[f[p]]] :
            f \in {g \in [1..n -> 1..n] : \A x, y \in 1..n : g[x] = g[y] => x = y}}

\* What s.sort(cmp) may leave in s, c being the results of cmp: the stable
\* order, and any order at all when cmp is not consistent (the order is then
\* implementation-defined).
SortOutcomes(s, c) ==
    IF ConsistentComparator(c) THEN {StableSort(s, c)} ELSE Orderings(s)

\* CompareProfit with its operands swapped: an ascending sort.
CompareProfitAscending(a, b) == SortOrder(Sub(a.profit, b.profit))

\* (a, b) => b.profit - a.profit
CompareProfit(a, b) == SortOrder(Sub(b.profit, a.profit))

\* a.sku.localeCompare(b.sku): the collation order of the skus the model uses.
Collation == <<"A", "B", "constructor", "Z">>

CollationRank(sku) == CHOOSE r \in DOMAIN Collation : Collation[r] = sku

LocaleCompare(a, b) == CollationRank(a) - CollationRank(b)

\* The number a quantity converts to in b.quantity - a.quantity: the source text
\* of a function is not a numeral.
ToNumber(v) == IF IsStr(v) THEN NaN ELSE v

\* The comparator of productList.sort
CompareProducts(a, b) ==
    IF a.quantity # b.quantity
    THEN SortOrder(Sub(ToNumber(b.quantity), ToNumber(a.quantity)))
    ELSE LocaleCompare(a.sku, b.sku)

\* productList.slice(0, 10)
TopN == 10

Slice(s, n) == SubSeq(s, 1, IF Len(s) < n THEN Len(s) ELSE n)

-----------------------------------------------------------------------------
(* The body of purchase_records.forEach *)

\* The own properties of products_sold, which is kept as the sequence of its
\* entries in creation order (the order Object.entries lists them in).
OwnSold(sold) == [sku \in {sold[k].sku : k \in DOMAIN sold} |->
                    (sold[CHOOSE k \in DOMAIN sold : sold[k].sku = sku]).quantity]

SetSold(sold, sku, value) ==
    IF \E k \in DOMAIN sold : sold[k].sku = sku
    THEN [k \in DOMAIN sold |->
            IF sold[k].sku = sku THEN [sku |-> sku, quantity |-> value] ELSE sold[k]]
    ELSE Append(sold, [sku |-> sku, quantity |-> value])

\* !v for what products_sold[sku] can hold
NotTruthy(p) ==
    \/ p.kind = "undefined"
    \/ p.kind = "own" /\ (IsNaN(p.value) \/ p.value = Num(0) \/ p.value = Str(<<>>))

\* cur + quantity, where cur is what products_sold[sku] reads: a number, a
\* string, or an inherited function, whose source text the number is appended to.
PlusQuantity(p, quantity) ==
    IF p.kind = "own" /\ IsNum(p.value) THEN Num(p.value.num + quantity)
    ELSE IF p.kind = "own" /\ IsStr(p.value) THEN Str(Append(p.value.str, quantity))
    ELSE IF p.kind = "inherited" THEN Str(<<quantity>>)
    ELSE NaN

\* if (!products_sold[sku]) products_sold[sku] = 0; products_sold[sku] += quantity
AddSold(sold, sku, quantity) ==
    LET zeroed == IF NotTruthy(Get(OwnSold(sold), sku)) THEN SetSold(sold, sku, Num(0))
                  ELSE sold
    IN  SetSold(zeroed, sku, PlusQuantity(Get(OwnSold(zeroed), sku), quantity))

\* product ? product.purchase_price * item.quantity : 0
ItemCost(product, item) ==
    IF product.kind = "own" THEN Num(product.value.purchase_price * item.quantity)
    ELSE IF product.kind = "inherited" THEN NaN
    ELSE Num(0)

\* One line item of a record of the seller stat.
ScanItem(stat, item, f, products) ==
    LET product == Get(products, item.sku)
        revenueItem == CallRevenue(f, item, product)
        cost == ItemCost(product, item)
    IN  [stat EXCEPT !.profit = Add(stat.profit, Sub(revenueItem, cost)),
                     !.products_sold = AddSold(stat.products_sold, item.sku, item.quantity)]

RECURSIVE ScanItems(_, _, _, _, _)
ScanItems(stat, items, k, f, products) ==
    IF k > Len(items) THEN stat
    ELSE ScanItems(ScanItem(stat, items[k], f, products), items, k + 1, f, products)

\* The calls of calculateRevenue the first n items of a record make.
ItemCalls(items, n, products) ==
    [k \in 1..n |-> [item |-> items[k], product |-> Get(products, items[k].sku).kind]]

\* Array.isArray(record.items)
Items(record) == IF IsArrayProp(record, "items") THEN record.items ELSE <<>>

-----------------------------------------------------------------------------
(* analyzeSalesData *)

\* The messages of the errors the function throws: "Некорректные входные
\* данные", "Опции должны быть объектом", "В опциях отсутствуют требуемые
\* функции calculateRevenue и/или calculateBonus", and the TypeError of a
\* property read on undefined.
InputError == "Error: incorrect input data"
OptionsObjectError == "Error: options must be an object"
OptionsFunctionsError == "Error: options lack calculateRevenue and/or calculateBonus"
UndefinedReadError == "TypeError: cannot read properties of undefined"

\* The condition of the first if.
InvalidData(d) ==
    \/ Falsy(d)
    \/ ~IsArrayProp(d, "products")
    \/ ~IsArrayProp(d, "sellers")
    \/ ~IsArrayProp(d, "purchase_records")
    \/ Len(d.products) = 0
    \/ Len(d.sellers) = 0
    \/ Len(d.purchase_records) = 0

\* The conditions of the second and third if.
OptionsNotObject(o) == TypeOf(o) # "object" \/ o.type = "null"

FunctionsMissing(o) ==
    ~IsFunctionProp(o, "calculateRevenue") \/ ~IsFunctionProp(o, "calculateBonus")

\* ValidationError with the checks of options moved above the check of data.
ValidationErrorOptionsFirst(d, o) ==
    IF OptionsNotObject(o) THEN OptionsObjectError
    ELSE IF FunctionsMissing(o) THEN OptionsFunctionsError
    ELSE IF InvalidData(d) THEN InputError
    ELSE "none"

\* The error the checks at the top of the function throw, "none" if they pass.
ValidationError(d, o) ==
    IF InvalidData(d) THEN InputError
    ELSE IF OptionsNotObject(o) THEN OptionsObjectError
    ELSE IF FunctionsMissing(o) THEN OptionsFunctionsError
    ELSE "none"

Validate ==
    /\ pc = "validate"
    /\ error' = ValidationError(data, options)
    /\ pc' = IF error' = "none" THEN "prepare" ELSE "threw"
    /\ UNCHANGED <<data, options, heap, sellerStats, sellerIndex, productIndex,
                   builtins, cursor, revenueCalls, bonusCalls, report, fn>>

\* data.sellers.map(seller => ({...}))
NewStat(seller) ==
    [id |-> seller.id, name |-> FormatName(seller), revenue |-> 0,
     profit |-> Num(0), sales_count |-> 0, products_sold |-> <<>>]

\* The own properties index[element[key]] = ... leaves after a forEach over s:
\* the last element with a key wins.
LastWith(s, key, value) == CHOOSE k \in DOMAIN s :
    s[k][key] = value /\ \A m \in DOMAIN s : s[m][key] = value => m <= k

IndexBy(s, key) == [value \in {s[k][key] : k \in DOMAIN s} |-> LastWith(s, key, value)]

Prepare ==
    /\ pc = "prepare"
    /\ heap' = [r \in DOMAIN data.sellers |-> NewStat(data.sellers[r])]
    /\ sellerStats' = [r \in DOMAIN data.sellers |-> r]
    /\ sellerIndex' = IndexBy(data.sellers, "id")
    /\ productIndex' = [sku \in DOMAIN IndexBy(data.products, "sku") |->
                            data.products[IndexBy(data.products, "sku")[sku]]]
    /\ pc' = "scan"
    /\ cursor' = 1
    /\ UNCHANGED <<data, options, error, builtins, revenueCalls, bonusCalls, report, fn>>

\* CountSale moved inside the branch that handles the line items.
CountSaleWithItemsOnly(stat, record) ==
    IF IsArrayProp(record, "items")
    THEN [stat EXCEPT !.sales_count = @ + 1, !.revenue = @ + record.total_amount]
    ELSE stat

\* seller.sales_count += 1; seller.revenue += record.total_amount
CountSale(stat, record) ==
    [stat EXCEPT !.sales_count = @ + 1, !.revenue = @ + record.total_amount]

\* The record's line items as calculateRevenue calls, tagged with the record.
RecordCalls(index, items, n) ==
    [k \in 1..n |-> [record |-> index] @@ ItemCalls(items, n, productIndex)[k]]

\* The callback of data.purchase_records.forEach, for the record at cursor.
ScanRecord ==
    /\ pc = "scan"
    /\ LET record == data.purchase_records[cursor]
           seller == Get(sellerIndex, record.seller_id)
           items == Items(record)
           \* An inherited seller is a built-in function or object; it has no
           \* products_sold, so its first line item throws.
           throws == seller.kind = "inherited" /\ items # <<>>
           made == IF seller.kind = "own" THEN Len(items)
                   ELSE IF throws THEN 1 ELSE 0
       IN  /\ heap' = IF seller.kind = "own"
                      THEN [heap EXCEPT ![seller.value] =
                              ScanItems(CountSale(@, record), items, 1,
                                        options.calculateRevenue, productIndex)]
                      ELSE heap
           /\ builtins' = IF seller.kind = "inherited"
                          THEN builtins \cup {<<record.seller_id, "sales_count">>,
                                              <<record.seller_id, "revenue">>}
                                        \cup (IF throws THEN {<<record.seller_id, "profit">>}
                                              ELSE {})
                          ELSE builtins
           /\ revenueCalls' = revenueCalls \o RecordCalls(cursor, items, made)
           /\ error' = IF throws THEN UndefinedReadError ELSE error
           /\ pc' = IF throws THEN "threw"
                    ELSE IF cursor = Len(data.purchase_records) THEN "sort" ELSE "scan"
           /\ cursor' = IF throws THEN cursor
                        ELSE IF cursor = Len(data.purchase_records) THEN 1 ELSE cursor + 1
    /\ UNCHANGED <<data, options, sellerStats, sellerIndex, productIndex,
                   bonusCalls, report, fn>>

\* sellerStats.sort((a, b) => b.profit - a.profit)
SortStats ==
    /\ pc = "sort"
    /\ sellerStats' \in SortOutcomes(sellerStats,
            [a \in DOMAIN sellerStats |-> [b \in DOMAIN sellerStats |->
                CompareProfit(heap[sellerStats[a]], heap[sellerStats[b]])]])
    /\ pc' = "finalize"
    /\ UNCHANGED <<data, options, error, heap, sellerIndex, productIndex, builtins,
                   cursor, revenueCalls, bonusCalls, report, fn>>

\* The callback of sellerStats.forEach((seller, index) => ...), for the seller
\* at cursor: index is cursor - 1.
Finalize ==
    /\ pc = "finalize"
    /\ LET ref == sellerStats[cursor]
           seller == heap[ref]
           totalSellers == Len(sellerStats)
           bonus == CallBonus(options.calculateBonus, cursor - 1, totalSellers, seller)
           sold == seller.products_sold
       IN  /\ \E productList \in SortOutcomes(sold,
                    [a \in DOMAIN sold |-> [b \in DOMAIN sold |->
                        CompareProducts(sold[a], sold[b])]]) :
                heap' = [heap EXCEPT ![ref] =
                            [bonus |-> bonus,
                             top_products |-> Slice(productList, TopN)] @@ seller]
           /\ bonusCalls' = Append(bonusCalls,
                                   [index |-> cursor - 1, total |-> totalSellers,
                                    seller |-> ref, profit |-> seller.profit,
                                    result |-> bonus])
           /\ pc' = IF cursor = totalSellers THEN "return" ELSE "finalize"
           /\ cursor' = IF cursor = totalSellers THEN 1 ELSE cursor + 1
    /\ UNCHANGED <<data, options, error, sellerStats, sellerIndex, productIndex,
                   builtins, revenueCalls, report, fn>>

\* One row of the returned array.
Row(seller) ==
    [seller_id |-> seller.id,
     name |-> seller.name,
     revenue |-> ToFixed2(seller.revenue),
     profit |-> ToFixed2Num(seller.profit),
     sales_count |-> seller.sales_count,
     top_products |-> seller.top_products,
     bonus |-> ToFixed2Num(seller.bonus)]

Return ==
    /\ pc = "return"
    /\ report' = [k \in DOMAIN sellerStats |-> Row(heap[sellerStats[k]])]
    /\ pc' = "done"
    /\ UNCHANGED <<data, options, error, heap, sellerStats, sellerIndex, productIndex,
                   builtins, cursor, revenueCalls, bonusCalls, fn>>

\* A strategy called on its own, outside analyzeSalesData.
CallStrategy ==
    /\ pc = "strategy"
    /\ fn' = [fn EXCEPT !.result =
                IF fn.name = "calculateBonusByProfit"
                THEN <<calculateBonusByProfit(fn.args.index, fn.args.total, fn.args.seller)>>
                ELSE <<calculateSimpleRevenue(fn.args.purchase, fn.args.product)>>]
    /\ pc' = "returned"
    /\ UNCHANGED <<data, options, error, heap, sellerStats, sellerIndex, productIndex,
                   builtins, cursor, revenueCalls, bonusCalls, report>>

Next == Validate \/ Prepare \/ ScanRecord \/ SortStats \/ Finalize \/ Return

-----------------------------------------------------------------------------
(* Arguments *)

MaxSellers == 2
MaxRecords == 2

\* The sequences over S of length 1 to n.
NonEmptySeqs(S, n) == UNION {[1..k -> S] : k \in 1..n}

Ann == [id |-> "s1", first_name |-> <<"A", "n", "n">>, last_name |-> <<"L", "e", "e">>]
Nameless == [id |-> "s2", first_name |-> <<>>, last_name |-> <<" ">>]

ProductA == [sku |-> "A", purchase_price |-> Milli(500)]
ProductB == [sku |-> "B", purchase_price |-> Milli(1200)]
ProductConstructor == [sku |-> "constructor", purchase_price |-> Milli(250)]

ItemA == [sku |-> "A", quantity |-> 1, sale_price |-> Milli(1505)]

DefaultOptions ==
    [type |-> "object",
     calculateRevenue |-> Function("calculateSimpleRevenue"),
     calculateBonus |-> Function("calculateBonusByProfit")]

CustomOptions ==
    [type |-> "object",
     calculateRevenue |-> Function("zeroRevenue"),
     calculateBonus |-> Function("placeBonus")]

\* options that fail a check: undefined, null, a function, {}, an object with
\* one strategy only, an object whose calculateBonus is a string.
BadOptions ==
    {[type |-> "undefined"], [type |-> "null"], [type |-> "function"],
     [type |-> "object"],
     [type |-> "object", calculateRevenue |-> Function("calculateSimpleRevenue")],
     [type |-> "object", calculateBonus |-> Function("calculateBonusByProfit")],
     [type |-> "object", calculateRevenue |-> Function("calculateSimpleRevenue"),
      calculateBonus |-> [type |-> "string"]]}

SmallData ==
    [type |-> "object", products |-> <<ProductA>>, sellers |-> <<Ann>>,
     purchase_records |-> <<[seller_id |-> "s1", total_amount |-> Milli(1006),
                             items |-> <<ItemA>>]>>]

\* data that fails the first check: undefined, null, one collection that is
\* not an array, one collection that is empty.
BadData ==
    {[type |-> "undefined"], [type |-> "null"], [type |-> "object"],
     [type |-> "object", sellers |-> SmallData.sellers,
      purchase_records |-> SmallData.purchase_records],
     [type |-> "object", products |-> SmallData.products,
      purchase_records |-> SmallData.purchase_records],
     [type |-> "object", products |-> SmallData.products, sellers |-> SmallData.sellers],
     [SmallData EXCEPT !.products = <<>>],
     [SmallData EXCEPT !.sellers = <<>>],
     [SmallData EXCEPT !.purchase_records = <<>>]}

\* Calls that fail validation.
BadCalls ==
    {[data |-> d, options |-> o] : d \in BadData, o \in BadOptions \cup {DefaultOptions}}
    \cup {[data |-> SmallData, options |-> o] : o \in BadOptions}

\* Records naming a seller, a seller that may be missing, or a property of
\* Object.prototype; with and without line items.
RecordPool ==
    {[seller_id |-> s, total_amount |-> a] : s \in {"s1", "s2", "constructor"},
                                             a \in {Milli(1006), Milli(2250)}}
    \cup {[seller_id |-> s, total_amount |-> a, items |-> <<ItemA>>] :
            s \in {"s1", "s2", "constructor"}, a \in {Milli(1006), Milli(2250)}}

Calls ==
    {[data |-> [type |-> "object", products |-> <<ProductA>>, sellers |-> s,
                purchase_records |-> r],
      options |-> o] :
        s \in NonEmptySeqs({Ann, Nameless}, MaxSellers),
        r \in NonEmptySeqs(RecordPool, MaxRecords),
        o \in {DefaultOptions, CustomOptions}}

InitCall(calls) ==
    /\ \E call \in calls : data = call.data /\ options = call.options
    /\ pc = "validate"
    /\ error = "none"
    /\ heap = <<>>
    /\ sellerStats = <<>>
    /\ sellerIndex = <<>>
    /\ productIndex = <<>>
    /\ builtins = {}
    /\ cursor = 1
    /\ revenueCalls = <<>>
    /\ bonusCalls = <<>>
    /\ report = <<>>
    /\ fn = [name |-> "none"]

Init == InitCall(Calls \cup BadCalls)

Spec == Init /\ [][Next]_vars

-----------------------------------------------------------------------------
(* Calls that exercise the line items *)

MaxItems == 2
MaxItemRecords == 2

Third == [id |-> "s3", last_name |-> <<"B", "o">>]

ItemA2 == [sku |-> "A", quantity |-> 2, sale_price |-> Milli(1010), discount |-> 50]
ItemZ == [sku |-> "Z", quantity |-> 1, sale_price |-> Milli(300), discount |-> 0]
ItemConstructor == [sku |-> "constructor", quantity |-> 1, sale_price |-> Milli(400)]

ItemPool == {ItemA, ItemA2, ItemZ, ItemConstructor}

ItemLists == {<<>>} \cup NonEmptySeqs(ItemPool, MaxItems)

CallsWithItems ==
    {[data |-> [type |-> "object", products |-> p, sellers |-> s,
                purchase_records |-> r],
      options |-> o] :
        p \in {<<ProductA>>, <<ProductA, ProductConstructor>>},
        s \in {<<Ann>>, <<Ann, Nameless>>},
        r \in NonEmptySeqs({[seller_id |-> id, total_amount |-> Milli(1006), items |-> l] :
                              id \in {"s1", "s2"}, l \in ItemLists}, MaxItemRecords),
        o \in {DefaultOptions, CustomOptions}}

InitItems == InitCall(CallsWithItems)

SpecItems == InitItems /\ [][Next]_vars

-----------------------------------------------------------------------------
(* Calls that exercise the ranking: one record for each seller *)

MaxRankSellers == 5

Fourth == [id |-> "s4", first_name |-> <<"C">>, last_name |-> <<"D">>]
Fifth == [id |-> "s5", first_name |-> <<" ", "E">>]
Sixth == [id |-> "s6", first_name |-> <<"F">>, last_name |-> <<"G">>]
Seventh == [id |-> "s7", first_name |-> <<"H">>, last_name |-> <<"I">>]
RankSellers == <<Ann, Nameless, Third, Fourth, Fifth, Sixth, Seventh>>

ItemLoss == [sku |-> "B", quantity |-> 1, sale_price |-> Milli(200), discount |-> 0]

\* A record with no items, one with a gain, one with a larger gain, one with a loss.
RankItemLists == {<<>>, <<ItemA>>, <<ItemA2, ItemA>>, <<ItemLoss>>}

RankCalls ==
    UNION {{[data |-> [type |-> "object",
                       products |-> <<ProductA, ProductB>>,
                       sellers |-> SubSeq(RankSellers, 1, n),
                       purchase_records |->
                           [k \in 1..n |-> [seller_id |-> RankSellers[k].id,
                                            total_amount |-> Milli(1006),
                                            items |-> l[k]]]],
             options |-> DefaultOptions] :
            l \in [1..n -> RankItemLists]} : n \in 1..MaxRankSellers}

InitRank == InitCall(RankCalls)

SpecRank == InitRank /\ [][Next]_vars

-----------------------------------------------------------------------------
(* The strategies called on their own *)

MaxRank == 5

ProfitPool == {Num(0 - Milli(2000)), Num(0), Num(Milli(10)), Num(Milli(2000)), NaN}

StrategyCalls ==
    {[name |-> "calculateBonusByProfit",
      args |-> [index |-> i, total |-> t, seller |-> [profit |-> p]],
      result |-> <<>>] : i \in 0..MaxRank, t \in 0..(MaxRank + 1), p \in ProfitPool}
    \cup {[name |-> "calculateSimpleRevenue",
           args |-> [purchase |-> i, product |-> ProductA],
           result |-> <<>>] : i \in ItemPool}

InitStrategy ==
    /\ fn \in StrategyCalls
    /\ pc = "strategy"
    /\ data = [type |-> "undefined"]
    /\ options = [type |-> "undefined"]
    /\ error = "none"
    /\ heap = <<>>
    /\ sellerStats = <<>>
    /\ sellerIndex = <<>>
    /\ productIndex = <<>>
    /\ builtins = {}
    /\ cursor = 1
    /\ revenueCalls = <<>>
    /\ bonusCalls = <<>>
    /\ report = <<>>

NextStrategy == CallStrategy

SpecStrategy == InitStrategy /\ [][NextStrategy]_vars

-----------------------------------------------------------------------------
(* Vocabulary of the properties *)

Sellers == data.sellers
Records == data.purchase_records

DistinctIds == \A a, b \in DOMAIN Sellers : Sellers[a].id = Sellers[b].id => a = b

KnownSeller(id) == \E k \in DOMAIN Sellers : Sellers[k].id = id

RecordsOf(id) == {k \in DOMAIN Records : Records[k].seller_id = id}

RECURSIVE SetSum(_, _)
SetSum(f, S) ==
    IF S = {} THEN 0
    ELSE LET x == CHOOSE y \in S : TRUE IN f[x] + SetSum(f, S \ {x})

Abs(x) == IF x < 0 THEN 0 - x ELSE x

ValidationErrors == {InputError, OptionsObjectError, OptionsFunctionsError}

-----------------------------------------------------------------------------
(* Properties of a call of analyzeSalesData *)

\* C1, as claimed: a call that passes validation with pairwise distinct seller
\* ids returns a report of exactly len(sellers) rows in which every seller id is
\* the seller_id of exactly one row, whatever the purchase records hold.
C1_OneRowPerSeller ==
    (pc \in {"done", "threw"} /\ error \notin ValidationErrors /\ DistinctIds) =>
        /\ pc = "done"
        /\ Len(report) = Len(Sellers)
        /\ \A k \in DOMAIN Sellers :
              Cardinality({r \in DOMAIN report : report[r].seller_id = Sellers[k].id}) = 1

\* C2: in a returned report the sales_count of all rows add up to the number of
\* purchase records whose seller_id is the id of a seller; with distinct ids
\* each row counts exactly the records naming its seller, with or without items.
C2_SalesCountSum ==
    pc = "done" =>
        /\ SetSum([r \in DOMAIN report |-> report[r].sales_count], DOMAIN report)
             = Cardinality({k \in DOMAIN Records : KnownSeller(Records[k].seller_id)})
        /\ DistinctIds =>
              \A r \in DOMAIN report :
                  report[r].sales_count = Cardinality(RecordsOf(report[r].seller_id))

C2_Witness ==
    /\ pc = "done"
    /\ \E k \in DOMAIN Records :
          KnownSeller(Records[k].seller_id) /\ "items" \notin DOMAIN Records[k]
    /\ \E k \in DOMAIN Records : ~KnownSeller(Records[k].seller_id)
    /\ \E r \in DOMAIN report : report[r].sales_count = 1

\* C3: once the checks have run, a call whose data is absent or has a
\* collection that is no sequence or is empty has thrown the input error, also
\* when its options are invalid too; a call with valid data whose options are no
\* object or lack a callable strategy has thrown an options error; and a call
\* that threw either has returned no report and called neither strategy.
C3_ValidationFailsFast ==
    LET absent == data.type \in {"undefined", "null"}
        inputInvalid ==
            \/ absent
            \/ \E key \in {"products", "sellers", "purchase_records"} :
                  key \notin DOMAIN data \/ Len(data[key]) = 0
        optionsInvalid ==
            \/ options.type # "object"
            \/ \E key \in {"calculateRevenue", "calculateBonus"} :
                  key \notin DOMAIN options \/ options[key].type # "function"
    IN  pc # "validate" =>
            /\ inputInvalid => (pc = "threw" /\ error = InputError)
            /\ (~inputInvalid /\ optionsInvalid) =>
                  (pc = "threw" /\ error \in {OptionsObjectError, OptionsFunctionsError})
            /\ error \in ValidationErrors =>
                  /\ pc = "threw"
                  /\ report = <<>>
                  /\ heap = <<>>
                  /\ revenueCalls = <<>>
                  /\ bonusCalls = <<>>

C3_Witness ==
    /\ pc = "threw"
    /\ error = InputError
    /\ data.type = "object"
    /\ options.type = "undefined"

\* C4, as claimed: scanning a purchase record whose seller_id is the id of no
\* seller changes no SellerStat, calls calculateRevenue for none of its items
\* and does not throw.
C4_UnknownSellerSkipped ==
    [][(pc = "scan" /\ ~KnownSeller(Records[cursor].seller_id)) =>
          (heap' = heap /\ revenueCalls' = revenueCalls /\ pc' # "threw")]_vars

\* C8, as claimed: the revenue a row reports is the sum of total_amount over the
\* records naming its seller.
C8_RevenueIsSum ==
    (pc = "done" /\ DistinctIds) =>
        \A r \in DOMAIN report :
            report[r].revenue = SetSum([k \in DOMAIN Records |-> Records[k].total_amount],
                                       RecordsOf(report[r].seller_id))

\* C8, amended: with distinct seller ids, the revenue a row reports is the sum
\* of total_amount over the records naming its seller rounded to the nearest
\* cent, whatever the line items, the products and calculateRevenue are; its
\* sales_count is the number of those records; a seller no record names has
\* revenue 0, profit 0 and sales_count 0; and a record without an items
\* sequence never makes the call throw.
C8_RevenueIsRoundedSum ==
    /\ (pc = "done" /\ DistinctIds) =>
          \A r \in DOMAIN report :
              LET mine == RecordsOf(report[r].seller_id)
                  exact == SetSum([k \in DOMAIN Records |-> Records[k].total_amount], mine)
              IN  /\ report[r].revenue % Cent = 0
                  /\ 2 * Abs(report[r].revenue - exact) <= Cent
                  /\ report[r].sales_count = Cardinality(mine)
                  /\ mine = {} => (report[r].revenue = 0 /\ report[r].profit = Num(0))
    /\ (pc = "threw" /\ error \notin ValidationErrors) =>
          "items" \in DOMAIN Records[cursor]

C8_Witness ==
    /\ pc = "done"
    /\ DistinctIds
    /\ \E r \in DOMAIN report :
          /\ \E k \in RecordsOf(report[r].seller_id) : "items" \notin DOMAIN Records[k]
          /\ report[r].revenue #
                SetSum([k \in DOMAIN Records |-> Records[k].total_amount],
                       RecordsOf(report[r].seller_id))
    /\ \E r \in DOMAIN report : RecordsOf(report[r].seller_id) = {}

-----------------------------------------------------------------------------
(* Properties of the line items, the ranking and the bonus *)

\* The line items of the records naming the seller id, as <<record, item>> pairs.
LineItemsOf(id) ==
    {<<k, j>> : k \in RecordsOf(id), j \in 1..MaxItems + 1} \cap
    {<<k, j>> \in (DOMAIN Records) \X (1..MaxItems + 1) : j <= Len(Items(Records[k]))}

LineItem(at) == Items(Records[at[1]])[at[2]]

NamesProduct(sku) == \E k \in DOMAIN data.products : data.products[k].sku = sku

PriceOf(sku) ==
    (data.products[CHOOSE k \in DOMAIN data.products : data.products[k].sku = sku]).purchase_price

\* The profit C9 gives one line item: calculateRevenue(item, product) minus
\* purchase_price * quantity, minus nothing when the sku names no product.
ClaimedItemProfit(item) ==
    CallRevenue(options.calculateRevenue, item, item).num
    - (IF NamesProduct(item.sku) THEN PriceOf(item.sku) * item.quantity ELSE 0)

\* The quantity of sku the line items of the seller id add up to.
QuantitySold(id, sku) ==
    SetSum([at \in LineItemsOf(id) |->
                IF LineItem(at).sku = sku THEN LineItem(at).quantity ELSE 0],
           LineItemsOf(id))

SkusSold(id) == {LineItem(at).sku : at \in LineItemsOf(id)}

Scanned == pc \in {"sort", "finalize", "return", "done"}

\* C9, as claimed: once the records are scanned, with distinct seller ids, every
\* seller's profit is the sum over the line items of the records naming it of
\* calculateRevenue(item, product) - cost, cost being purchase_price * quantity
\* for a sku that names a product and 0 for one that does not; every line item
\* was passed to calculateRevenue, with no product when its sku names none; and
\* products_sold holds the quantity sold of every sku, known or not.
C9_ProfitIsSum ==
    (Scanned /\ DistinctIds) =>
        /\ \A ref \in DOMAIN heap :
              /\ heap[ref].profit =
                    Num(SetSum([at \in LineItemsOf(heap[ref].id) |->
                                    ClaimedItemProfit(LineItem(at))],
                               LineItemsOf(heap[ref].id)))
              /\ \A sku \in SkusSold(heap[ref].id) :
                    \E e \in DOMAIN heap[ref].products_sold :
                        /\ heap[ref].products_sold[e].sku = sku
                        /\ heap[ref].products_sold[e].quantity
                              = Num(QuantitySold(heap[ref].id, sku))
        /\ \A c \in DOMAIN revenueCalls :
              ~NamesProduct(revenueCalls[c].item.sku) => revenueCalls[c].product = "undefined"
        /\ Len(revenueCalls)
              = Cardinality(UNION {LineItemsOf(Sellers[k].id) : k \in DOMAIN Sellers})

\* Whether entry a of top_products ranks before entry b: a larger quantity, or
\* an equal quantity and a smaller sku.
RanksBefore(a, b) ==
    /\ IsNum(a.quantity)
    /\ IsNum(b.quantity)
    /\ \/ a.quantity.num > b.quantity.num
       \/ a.quantity.num = b.quantity.num /\ CollationRank(a.sku) < CollationRank(b.sku)

\* C5, as claimed: every row's top_products has at most 10 entries, holds a sku
\* at most once with the quantity all line items of the seller add up to, is in
\* descending order of quantity and ascending order of sku among equals, and
\* leaves out only skus that rank after its last entry.
C5_TopProducts ==
    (pc = "done" /\ DistinctIds) =>
        \A r \in DOMAIN report :
            LET top == report[r].top_products
                id == report[r].seller_id
            IN  /\ Len(top) <= 10
                /\ \A i, j \in DOMAIN top : top[i].sku = top[j].sku => i = j
                /\ \A i \in DOMAIN top :
                      /\ top[i].sku \in SkusSold(id)
                      /\ top[i].quantity = Num(QuantitySold(id, top[i].sku))
                /\ \A i, j \in DOMAIN top : i < j => RanksBefore(top[i], top[j])
                /\ \A sku \in SkusSold(id) \ {top[i].sku : i \in DOMAIN top} :
                      /\ Len(top) = 10
                      /\ RanksBefore(top[10], [sku |-> sku,
                                               quantity |-> Num(QuantitySold(id, sku))])
                /\ SkusSold(id) = {} => top = <<>>

\* C7, as claimed (the bonus of a row read as rounded to the cent, like every
\* amount of the report): calculateBonus is not called before the records are
\* scanned and the stats sorted; the rows of the report are in non-increasing
\* order of profit; calculateBonus was called once for each seller, with the
\* row's position as rank and len(sellers) as total; and each row carries the
\* bonus the strategy gives for its position and its seller's final profit.
C7_BonusByRank ==
    /\ pc \in {"validate", "prepare", "scan", "sort"} => bonusCalls = <<>>
    /\ pc = "done" =>
          /\ \A r \in 1..(Len(report) - 1) :
                /\ IsNum(report[r].profit)
                /\ IsNum(report[r + 1].profit)
                /\ report[r].profit.num >= report[r + 1].profit.num
          /\ Len(bonusCalls) = Len(Sellers)
          /\ \A r \in DOMAIN report :
                /\ bonusCalls[r].index = r - 1
                /\ bonusCalls[r].total = Len(Sellers)
                /\ bonusCalls[r].seller = sellerStats[r]
                /\ bonusCalls[r].profit = heap[sellerStats[r]].profit
                /\ report[r].seller_id = heap[sellerStats[r]].id
                /\ report[r].bonus =
                      ToFixed2Num(CallBonus(options.calculateBonus, r - 1, Len(Sellers),
                                            heap[sellerStats[r]]))

\* C10: when a report is returned under calculateBonusByProfit and every
\* seller's accumulated profit is a non-negative number, every bonus of the
\* report is a non-negative number and no row has a smaller bonus than the row
\* after it.
C10_BonusesFollowRanking ==
    (/\ pc = "done"
     /\ options.calculateBonus.name = "calculateBonusByProfit"
     /\ \A ref \in DOMAIN heap : IsNum(heap[ref].profit) /\ heap[ref].profit.num >= 0) =>
        /\ \A r \in DOMAIN report : IsNum(report[r].bonus) /\ report[r].bonus.num >= 0
        /\ \A r \in 1..(Len(report) - 1) : report[r].bonus.num >= report[r + 1].bonus.num

C10_Witness ==
    /\ pc = "done"
    /\ options.calculateBonus.name = "calculateBonusByProfit"
    /\ \A ref \in DOMAIN heap : IsNum(heap[ref].profit) /\ heap[ref].profit.num >= 0
    /\ Len(report) = 5
    /\ report[1].bonus.num > report[2].bonus.num
    /\ report[4].bonus.num > 0
    /\ report[5].bonus.num = 0
    /\ report[5].profit.num > 0

\* The case that makes the precondition of C10 necessary: the first of at least
\* four rows has a negative bonus, below the 0 of the last.
C10_NegativeProfitOnTop ==
    /\ pc = "done"
    /\ Len(report) >= 4
    /\ report[1].bonus.num < 0
    /\ report[Len(report)].bonus.num = 0

\* C6: calculateBonusByProfit(rank, total, stat) is 15% of stat.profit for rank
\* 0, 10% for rank 1 or 2 (also when that is the last place), 0 for the last
\* place from rank 3 on, and 5% for every other rank; so a profit that is not 0
\* gets a bonus of 0 only when total is at least 4.
C6_BonusTiers ==
    (pc = "returned" /\ fn.name = "calculateBonusByProfit"
                     /\ IsNum(fn.args.seller.profit)) =>
        LET rank == fn.args.index
            total == fn.args.total
            profit == fn.args.seller.profit.num
            bonus == fn.result[1]
        IN  /\ IsNum(bonus)
            /\ rank = 0 => bonus.num * 100 = profit * 15
            /\ rank \in {1, 2} => bonus.num * 100 = profit * 10
            /\ (rank >= 3 /\ rank = total - 1) => bonus.num = 0
            /\ (rank >= 3 /\ rank # total - 1) => bonus.num * 100 = profit * 5
            /\ (bonus.num = 0 /\ profit # 0) => total >= 4

C6_Witness ==
    /\ pc = "returned"
    /\ fn.name = "calculateBonusByProfit"
    /\ fn.args.index = 2
    /\ fn.args.total = 3
    /\ fn.args.seller.profit = Num(Milli(2000))
    /\ fn.result = <<Num(Milli(200))>>

====
